---- MODULE Spec2Model ----
(***************************************************************************)
(* nixc: the logos tokenizer (src/src/lexer.rs) and the recursive-descent  *)
(* parser (src/src/parser.rs).                                             *)
(*                                                                         *)
(* The lexer is a lazy iterator: every lexer.next() call of the parser     *)
(* reads one more match of the source text.  A step of the model is one    *)
(* lexer.next() call together with everything the parser does with the     *)
(* answer up to its next lexer.next() call.  The recursion of parse_value, *)
(* parse_list and parse_attrset is the variable stack.                     *)
(*                                                                         *)
(* Spec reads any stream of matches the lexer can give; SpecText reads a   *)
(* given source text (src/src/main.rs), tokenized by LexAt with the byte   *)
(* spans of the matches.  Both run the same parser actions.                *)
(***************************************************************************)
EXTENDS Integers, Sequences, FiniteSets, TLC

\* Longest token stream read from the lexer, and deepest nesting of
\* brackets and braces in it.
MaxTokens == 9
MaxDepth == 2

(***************************************************************************)
(* Lexer                                                                   *)
(***************************************************************************)

\* Text is a sequence of characters (one-character strings).
Digits == <<"0", "1", "2", "3", "4", "5", "6", "7", "8", "9">>

DigitChars == {Digits[i] : i \in 1..10}

DigitVal(c) == (CHOOSE i \in 1..10 : Digits[i] = c) - 1

\* i64::MAX = 9223372036854775807, as decimal digits.
I64MaxDigits ==
  <<"9", "2", "2", "3", "3", "7", "2", "0", "3", "6",
    "8", "5", "4", "7", "7", "5", "8", "0", "7">>

\* The digits of a number without its leading zeros (<<"0">> for zero).
RECURSIVE StripZeros(_)
StripZeros(ds) ==
  IF Len(ds) > 1 /\ ds[1] = "0" THEN StripZeros(Tail(ds)) ELSE ds

\* a > b for two numbers given by their digits without leading zeros.
DigitsGreater(a, b) ==
  \/ Len(a) > Len(b)
  \/ /\ Len(a) = Len(b)
     /\ \E i \in 1..Len(a) :
          /\ \A j \in 1..(i - 1) : a[j] = b[j]
          /\ DigitVal(a[i]) > DigitVal(b[i])

\* str::parse::<i64>() on a slice matching [0-9][_0-9]*: every character
\* must be a decimal digit (InvalidDigit otherwise) and the number must fit
\* i64 (PosOverflow otherwise).  A number is carried as its digits, since
\* its 64 bits matter.
ParseI64(slice) ==
  IF \E i \in 1..Len(slice) : slice[i] \notin DigitChars
  THEN [ok |-> FALSE, n |-> <<>>]
  ELSE IF DigitsGreater(StripZeros(slice), I64MaxDigits)
       THEN [ok |-> FALSE, n |-> <<>>]
       ELSE [ok |-> TRUE, n |-> StripZeros(slice)]

\* str::parse::<f64>() on a slice of the Float rule: Rust's float grammar
\* has neither '_' nor a type suffix; a leading '+' is dropped.
ParseF64(slice) ==
  IF \E i \in 1..Len(slice) : slice[i] \in {"_", "f", "F", "d", "D"}
  THEN [ok |-> FALSE, f |-> <<>>]
  ELSE [ok |-> TRUE, f |-> IF slice[1] = "+" THEN Tail(slice) ELSE slice]

\* A token, as the parser sees it.
Tok(kind) == [kind |-> kind, b |-> FALSE, n |-> <<>>, f |-> <<>>, s |-> <<>>]

\* The rules of the Token enum that carry no callback, each with a text it
\* matches.
PlainMatches ==
  { <<"Space", <<" ">> >>,
    <<"HexInteger", <<"0", "x", "1", "A">> >>,
    <<"OctalInteger", <<"0", "o", "7">> >>,
    <<"BinaryInteger", <<"0", "b", "1">> >>,
    <<"BraceOpen", <<"{">> >>, <<"BraceClose", <<"}">> >>,
    <<"BracketOpen", <<"[">> >>, <<"BracketClose", <<"]">> >>,
    <<"Colon", <<":">> >>, <<"Comma", <<",">> >>,
    <<"Null", <<"n", "u", "l", "l">> >>, <<"Let", <<"l", "e", "t">> >>,
    <<"In", <<"i", "n">> >>, <<"Equals", <<"=">> >>,
    <<"SemiColon", <<";">> >> }

\* The callback of the rule a match belongs to: .unwrap() panics on a
\* failed conversion.  "NoMatch" is text no rule matches: Some(Err(())).
Callback(raw) ==
  CASE raw.rule = "Integer" ->
         LET r == ParseI64(raw.slice)
         IN  [panic |-> ~r.ok, tok |-> [Tok("Integer") EXCEPT !.n = r.n]]
    [] raw.rule = "Float" ->
         LET r == ParseF64(raw.slice)
         IN  [panic |-> ~r.ok, tok |-> [Tok("Float") EXCEPT !.f = r.f]]
    [] raw.rule = "HexFloat" ->
         [panic |-> FALSE, tok |-> [Tok("HexFloat") EXCEPT !.s = raw.slice]]
    [] raw.rule = "Bool" ->
         [panic |-> FALSE,
          tok |-> [Tok("Bool") EXCEPT !.b = (raw.slice = <<"t", "r", "u", "e">>)]]
    [] raw.rule = "Identifier" ->
         [panic |-> FALSE, tok |-> [Tok("Identifier") EXCEPT !.s = raw.slice]]
    [] raw.rule = "NoMatch" ->
         [panic |-> FALSE, tok |-> Tok("LexError")]
    [] OTHER ->
         [panic |-> FALSE, tok |-> Tok(raw.rule)]

\* What one lexer.next() call can match: a rule and the slice it matched.
Raw(rule, slice) == [rule |-> rule, slice |-> slice]

IntSlices ==
  { <<"1">>, <<"1", "_", "0">>,
    [I64MaxDigits EXCEPT ![19] = "8"],
    <<"1">> \o [i \in 1..19 |-> "0"] }

FloatSlices == { <<"1", ".", "5">>, <<"1", ".", "5", "f">> }

RawMatches ==
  {Raw(m[1], m[2]) : m \in PlainMatches}
    \cup {Raw("NoMatch", <<"@">>), Raw("HexFloat", <<"0", "x", "1", "p", "3">>)}
    \cup {Raw("Bool", <<"t", "r", "u", "e">>),
          Raw("Bool", <<"f", "a", "l", "s", "e">>)}
    \cup {Raw("Identifier", <<"a">>), Raw("Identifier", <<"b">>)}
    \cup {Raw("Integer", s) : s \in IntSlices}
    \cup {Raw("Float", s) : s \in FloatSlices}

\* lexer.next() = None.
EndOfInput == Raw("None", <<>>)

Inputs == RawMatches \cup {EndOfInput}

(***************************************************************************)
(* The tokenizer on a given text.  An offset o counts the bytes before a   *)
(* position; the texts are ASCII, one byte a character.                    *)
(***************************************************************************)

Letters ==
  {"a", "b", "c", "d", "e", "f", "g", "h", "i", "j", "k", "l", "m", "n",
   "o", "p", "q", "r", "s", "t", "u", "v", "w", "x", "y", "z",
   "A", "B", "C", "D", "E", "F", "G", "H", "I", "J", "K", "L", "M", "N",
   "O", "P", "Q", "R", "S", "T", "U", "V", "W", "X", "Y", "Z"}

HexChars ==
  DigitChars \cup {"a", "b", "c", "d", "e", "f", "A", "B", "C", "D", "E", "F"}

OctalChars == {"0", "1", "2", "3", "4", "5", "6", "7"}

BinaryChars == {"0", "1"}

WhiteChars == {" ", "\t", "\n", "\f"}

\* The character at offset o, "" past the end.
Ch(src, o) == IF o + 1 \in 1..Len(src) THEN src[o + 1] ELSE ""

\* The number of characters of the set cs in a row from offset o on.
RECURSIVE Run(_, _, _)
Run(src, o, cs) == IF Ch(src, o) \in cs THEN 1 + Run(src, o + 1, cs) ELSE 0

\* The length of the text from offset o on up to the end of its line.
RECURSIVE LineRest(_, _)
LineRest(src, o) ==
  IF Ch(src, o) \in {"", "\n"} THEN 0 ELSE 1 + LineRest(src, o + 1)

\* The subpatterns of lines 21-25, each as the length of its longest match
\* at offset o (0: no match): a first character of cs, then characters of
\* cs and '_'.
Numeral(src, o, cs) ==
  IF Ch(src, o) \in cs THEN 1 + Run(src, o + 1, cs \cup {"_"}) ELSE 0

\* A slip that would match one digit only.
DecimalLenOneDigit(src, o) == IF Ch(src, o) \in DigitChars THEN 1 ELSE 0

DecimalLen(src, o) == Numeral(src, o, DigitChars)

ExpLen(src, o) ==
  IF Ch(src, o) \in {"e", "E"}
  THEN LET sign == IF Ch(src, o + 1) \in {"+", "-"} THEN 1 ELSE 0
           d == DecimalLen(src, o + 1 + sign)
       IN  IF d > 0 THEN 1 + sign + d ELSE 0
  ELSE 0

SuffixLen(src, o) == IF Ch(src, o) \in {"f", "F", "d", "D"} THEN 1 ELSE 0

\* A literal text lit at offset o.
LiteralLen(src, o, lit) ==
  IF /\ o + Len(lit) <= Len(src)
     /\ \A i \in 1..Len(lit) : src[o + i] = lit[i]
  THEN Len(lit)
  ELSE 0

\* "0" and one of the two letters of a radix prefix, then a numeral.
RadixLen(src, o, letters, cs) ==
  IF Ch(src, o) = "0" /\ Ch(src, o + 1) \in letters
       /\ Numeral(src, o + 2, cs) > 0
  THEN 2 + Numeral(src, o + 2, cs)
  ELSE 0

MaxOf(ns) == CHOOSE n \in ns : \A m \in ns : m <= n

\* The Float rule of line 46: an optional sign and the longest of its four
\* alternatives.
FloatLen(src, o) ==
  LET sign == IF Ch(src, o) \in {"+", "-"} THEN 1 ELSE 0
      p == o + sign
      d == DecimalLen(src, p)
      alt1 == IF d > 0 /\ Ch(src, p + d) = "."
              THEN LET q == p + d + 1
                       d2 == DecimalLen(src, q)
                       e == ExpLen(src, q + d2)
                   IN  d + 1 + d2 + e + SuffixLen(src, q + d2 + e)
              ELSE 0
      alt2 == IF Ch(src, p) = "." /\ DecimalLen(src, p + 1) > 0
              THEN LET d2 == DecimalLen(src, p + 1)
                       e == ExpLen(src, p + 1 + d2)
                   IN  1 + d2 + e + SuffixLen(src, p + 1 + d2 + e)
              ELSE 0
      alt3 == IF d > 0 /\ ExpLen(src, p + d) > 0
              THEN LET e == ExpLen(src, p + d)
                   IN  d + e + SuffixLen(src, p + d + e)
              ELSE 0
      alt4 == IF d > 0
                   /\ SuffixLen(src, p + d + ExpLen(src, p + d)) > 0
              THEN d + ExpLen(src, p + d) + 1
              ELSE 0
      best == MaxOf({alt1, alt2, alt3, alt4})
  IN  IF best > 0 THEN sign + best ELSE 0

\* The HexFloat rule of line 49: the mantissa is hex, hex '.', or an
\* optional hex, '.' and hex; then the binary exponent and a suffix.
HexFloatLen(src, o) ==
  IF Ch(src, o) = "0" /\ Ch(src, o + 1) \in {"x", "X"}
  THEN LET h1 == Numeral(src, o + 2, HexChars)
           dot == IF Ch(src, o + 2 + h1) = "." THEN 1 ELSE 0
           h2 == IF dot = 1 THEN Numeral(src, o + 3 + h1, HexChars) ELSE 0
           p == o + 2 + h1 + dot + h2
           sign == IF Ch(src, p + 1) \in {"+", "-"} THEN 1 ELSE 0
           d == DecimalLen(src, p + 1 + sign)
       IN  IF (h1 > 0 \/ h2 > 0) /\ Ch(src, p) \in {"p", "P"} /\ d > 0
           THEN (p - o) + 1 + sign + d + SuffixLen(src, p + 1 + sign + d)
           ELSE 0
  ELSE 0

\* The Identifier rule of line 89 on ASCII text.
IdentifierLen(src, o) ==
  IF Ch(src, o) \in Letters \cup {"_"}
  THEN 1 + Run(src, o + 1, Letters \cup DigitChars \cup {"_"})
  ELSE 0

\* The #[token] rules.
TokenLiterals ==
  { <<"Bool", <<"f", "a", "l", "s", "e">> >>,
    <<"Bool", <<"t", "r", "u", "e">> >>,
    <<"BraceOpen", <<"{">> >>, <<"BraceClose", <<"}">> >>,
    <<"BracketOpen", <<"[">> >>, <<"BracketClose", <<"]">> >>,
    <<"Colon", <<":">> >>, <<"Comma", <<",">> >>,
    <<"Null", <<"n", "u", "l", "l">> >>, <<"Let", <<"l", "e", "t">> >>,
    <<"In", <<"i", "n">> >>, <<"Equals", <<"=">> >>,
    <<"SemiColon", <<";">> >> }

\* The two logos::skip rules of lines 30-31.
SkipRules == {"Comment", "Whitespace"}

\* The rules, the one that wins a tie of length first: a #[token] beats
\* the Identifier regex, and Space (priority = 3) beats the whitespace run.
RulesByPriority ==
  <<"Space", "Bool", "Null", "Let", "In", "BraceOpen", "BraceClose",
    "BracketOpen", "BracketClose", "Colon", "Comma", "Equals", "SemiColon",
    "Integer", "HexInteger", "OctalInteger", "BinaryInteger", "Float",
    "HexFloat", "Identifier", "Comment", "Whitespace">>

\* The length of the longest match of a rule at offset o.
MatchLen(rule, src, o) ==
  CASE rule = "Space" -> LiteralLen(src, o, <<" ">>)
    [] rule = "Whitespace" -> Run(src, o, WhiteChars)
    [] rule = "Comment" ->
         IF LiteralLen(src, o, <<"/", "/">>) > 0
         THEN LET n == LineRest(src, o + 2)
              IN  2 + n + LiteralLen(src, o + 2 + n, <<"\n">>)
         ELSE 0
    [] rule = "Integer" -> DecimalLen(src, o)
    [] rule = "HexInteger" -> RadixLen(src, o, {"x", "X"}, HexChars)
    [] rule = "OctalInteger" -> RadixLen(src, o, {"o", "O"}, OctalChars)
    [] rule = "BinaryInteger" -> RadixLen(src, o, {"b", "B"}, BinaryChars)
    [] rule = "Float" -> FloatLen(src, o)
    [] rule = "HexFloat" -> HexFloatLen(src, o)
    [] rule = "Identifier" -> IdentifierLen(src, o)
    [] OTHER ->
         MaxOf({0} \cup {LiteralLen(src, o, m[2]) :
                           m \in {x \in TokenLiterals : x[1] = rule}})

\* The rules that match at offset o, each with the length of its longest
\* match and its place in RulesByPriority.
Candidates(src, o) ==
  {c \in {[rule |-> RulesByPriority[i],
           len |-> MatchLen(RulesByPriority[i], src, o),
           rank |-> i] : i \in DOMAIN RulesByPriority} : c.len > 0}

NoWinner == [rule |-> "NoMatch", len |-> 0, rank |-> 0]

\* A slip that would let the whitespace run win its tie with Space.
WinnerLast(src, o) ==
  IF Candidates(src, o) = {} THEN NoWinner
  ELSE CHOOSE c \in Candidates(src, o) :
         \A d \in Candidates(src, o) :
           d.len < c.len \/ (d.len = c.len /\ d.rank <= c.rank)

\* The match logos takes at offset o: the longest one, and among the rules
\* that match that much the one of highest priority.
Winner(src, o) ==
  IF Candidates(src, o) = {} THEN NoWinner
  ELSE CHOOSE c \in Candidates(src, o) :
         \A d \in Candidates(src, o) :
           d.len < c.len \/ (d.len = c.len /\ c.rank <= d.rank)

\* lexer.next() on the text src with the cursor at offset o: the match and
\* its span.  Skipped text yields nothing; text no rule matches yields
\* Some(Err(())), on which every function of the parser fails, whatever
\* its extent.
RECURSIVE LexAt(_, _)
LexAt(src, o) ==
  IF o >= Len(src)
  THEN [raw |-> EndOfInput, start |-> Len(src), end |-> Len(src)]
  ELSE LET w == Winner(src, o)
       IN  IF w.rule = "NoMatch"
           THEN [raw |-> Raw("NoMatch", SubSeq(src, o + 1, o + 1)),
                 start |-> o, end |-> o + 1]
           ELSE IF w.rule \in SkipRules
           THEN LexAt(src, o + w.len)
           ELSE [raw |-> Raw(w.rule, SubSeq(src, o + 1, o + w.len)),
                 start |-> o, end |-> o + w.len]

(***************************************************************************)
(* Values                                                                  *)
(***************************************************************************)

Val(kind) ==
  [kind |-> kind, b |-> FALSE, n |-> <<>>, f |-> <<>>,
   elems |-> <<>>, attrs |-> <<>>]

VNull == Val("Null")
VBool(b) == [Val("Bool") EXCEPT !.b = b]
VInteger(n) == [Val("Integer") EXCEPT !.n = n]
VFloat(f) == [Val("Float") EXCEPT !.f = f]
VList(array) == [Val("List") EXCEPT !.elems = array]
VAttrSet(map) == [Val("AttrSet") EXCEPT !.attrs = map]

\* The arms of the matches that turn one token into a value.
LeafKinds == {"Bool", "Null", "Float", "Integer"}

IsLeaf(tok) == tok.kind \in LeafKinds

\* A slip that would lose the token's payload.
LeafValueDefault(tok) ==
  CASE tok.kind = "Bool" -> VBool(FALSE)
    [] tok.kind = "Null" -> VNull
    [] tok.kind = "Float" -> VFloat(tok.f)
    [] tok.kind = "Integer" -> VInteger(tok.n)

LeafValue(tok) ==
  CASE tok.kind = "Bool" -> VBool(tok.b)
    [] tok.kind = "Null" -> VNull
    [] tok.kind = "Float" -> VFloat(tok.f)
    [] tok.kind = "Integer" -> VInteger(tok.n)

\* A slip that would build the list back to front.
ArrayPushFront(array, v) == <<v>> \o array

\* Vec::push.
ArrayPush(array, v) == Append(array, v)

\* A slip that would keep the first value of a key (entry().or_insert()).
MapInsertFirst(map, key, v) ==
  [k \in (DOMAIN map) \cup {key} |-> IF k \in DOMAIN map THEN map[k] ELSE v]

\* HashMap::insert.
MapInsert(map, key, v) ==
  [k \in (DOMAIN map) \cup {key} |-> IF k = key THEN v ELSE map[k]]

(***************************************************************************)
(* Parser                                                                  *)
(***************************************************************************)

MsgUnexpectedValue == "unexpected token (context: value)"
MsgEmptyValue == "empty values are not allowed"
MsgUnexpectedList == "unexpected token (context: list)"
MsgUnterminatedList == "unmatched opening bracket defined (context: list)"
MsgExpectedEquals == "expected '=' (context: attrset)"
MsgUnterminatedAttrSet == "unmatched opening brace (context: attrset)"

VARIABLES
  consumed,   \* the tokens lexer.next() has returned, in order
  consumer,   \* for each of them, the function that asked for it
  eof,        \* lexer.next() has returned None
  matched,    \* the lexer's last match: its rule and lexer.slice()
  stack,      \* the parse_list / parse_attrset calls in progress
  status,     \* "run", or how main's parse_value call ended
  result,     \* the Value of an Ok result
  error,      \* the ParseError of an Err result
  calls,      \* the calls that have returned Ok, in order of return
  source,     \* lexer.source(): the text, when it is given in advance
  span,       \* lexer.span(): the byte range of the last match
  spans,      \* for each token of consumed, its byte range
  tree        \* the tree the text was rendered from, when it was

vars ==
  <<consumed, consumer, eof, matched, stack, status, result, error, calls,
    source, span, spans, tree>>

\* The locals of a parse_list or parse_attrset call.  from is the index in
\* consumed of its opening token; span is lexer.span() at its entry (lines
\* 84 and 145); pc is where a parse_attrset call stands:
\* at the head of its loop, after a key (line 156), or in the parse_value
\* call of line 168.
ListFrame(from, sp) ==
  [fn |-> "list", from |-> from, span |-> sp, array |-> <<>>, map |-> <<>>,
   awaits_space |-> FALSE, awaits_value |-> FALSE,
   awaits_comma |-> FALSE, awaits_key |-> FALSE,
   pc |-> "loop", key |-> <<>>]

AttrFrame(from, sp) ==
  [fn |-> "attrset", from |-> from, span |-> sp, array |-> <<>>, map |-> <<>>,
   awaits_space |-> FALSE, awaits_value |-> FALSE,
   awaits_comma |-> FALSE, awaits_key |-> FALSE,
   pc |-> "loop", key |-> <<>>]

\* A byte range start..end of the text.
Span(start, end) == [start |-> start, end |-> end]

\* ParseError: src, bad_bit (offset and length) and message.  by is the
\* function that raised it and at the number of tokens read by then.
NoError ==
  [message |-> "", by |-> "", src |-> <<>>, offset |-> 0, length |-> 0,
   at |-> 0]

\* The text of a run whose input is read as a stream of matches.
Streamed == <<"<stream>">>

NoTree == Val("None")

Init ==
  /\ consumed = <<>>
  /\ consumer = <<>>
  /\ eof = FALSE
  /\ matched = EndOfInput
  /\ stack = <<>>
  /\ status = "run"
  /\ result = VNull
  /\ error = NoError
  /\ calls = <<>>
  /\ source = Streamed
  /\ span = Span(0, 0)
  /\ spans = <<>>
  /\ tree = NoTree

\* The error is the one with the message msg raised by the function who.
ErrorIs(msg, who) == error.message = msg /\ error.by = who

Top == stack[Len(stack)]

Caller == SubSeq(stack, 1, Len(stack) - 1)

\* The streams the model reads: at most MaxTokens tokens, nested at most
\* MaxDepth deep.
Admissible(raw) ==
  \/ raw = EndOfInput
  \/ /\ Len(consumed) < MaxTokens
     /\ raw.rule \in {"BracketOpen", "BraceOpen"} => Len(stack) < MaxDepth

\* What the next lexer.next() call can match.  In a streamed run it is any
\* admissible match, and positions are not followed; on a given text it is
\* the match at the cursor, which is the end of the last match.
Matches ==
  IF source = Streamed
  THEN {[raw |-> r, start |-> 0, end |-> 0] :
          r \in {x \in Inputs : Admissible(x)}}
  ELSE {LexAt(source, span.end)}

Call(fn, from, to, res) == [fn |-> fn, from |-> from, to |-> to, res |-> res]

\* A slip that would take the blanks after a match with it.
CursorPastBlanks(m) ==
  Span(m.start,
       m.end + (IF source = Streamed THEN 0 ELSE Run(source, m.end, WhiteChars)))

\* The lexer's span after the match m.
Cursor(m) == Span(m.start, m.end)

\* lexer.next() returned None.
ReadNone(m) ==
  /\ eof' = TRUE
  /\ span' = Cursor(m)
  /\ UNCHANGED <<consumed, consumer, matched, spans, source, tree>>

\* A slip that would look at the token and leave it in the stream.
PeekToken(m, who) ==
  /\ matched' = m.raw
  /\ UNCHANGED <<consumed, consumer, span, spans, eof, source, tree>>

\* lexer.next() returned the token of the match m to the function who.
ReadToken(m, who) ==
  /\ consumed' = Append(consumed, Callback(m.raw).tok)
  /\ consumer' = Append(consumer, who)
  /\ matched' = m.raw
  /\ span' = Cursor(m)
  /\ spans' = Append(spans, Cursor(m))
  /\ UNCHANGED <<eof, source, tree>>

\* The callback of the match raw panicked inside lexer.next(): the process
\* aborts with no token and no ParseError.
Abort(m) ==
  /\ matched' = m.raw
  /\ span' = Cursor(m)
  /\ status' = "abort"
  /\ UNCHANGED <<consumed, consumer, eof, stack, result, error, calls,
                 spans, source, tree>>

\* Err(ParseError { .. })?: the error leaves every call in progress.  The
\* stack is kept as it stood when the error was raised.
\* (a, b).into() for a SourceSpan: miette reads a pair as an offset and a
\* length.
SourceSpanFrom(a, b) == [offset |-> a, length |-> b]

\* The context a message names in its "(context: ...)", "" when it has
\* none.
ContextLabel(msg) ==
  CASE msg \in {MsgUnexpectedValue} -> "value"
    [] msg \in {MsgUnexpectedList, MsgUnterminatedList} -> "list"
    [] msg \in {MsgExpectedEquals, MsgUnterminatedAttrSet} -> "attrset"
    [] OTHER -> ""

\* A slip that would leave the source text out of the error.
ParseErrorNoSource(msg, who, sp) ==
  [message |-> msg, by |-> who, src |-> <<>>,
   offset |-> sp.start, length |-> sp.end, at |-> Len(consumed')]

\* The ParseError of lines 58-63 and its like: sp is the span the raising
\* function took at its entry.
ParseError(msg, who, sp) ==
  LET bad_bit == SourceSpanFrom(sp.start, sp.end)
  IN  [message |-> msg, by |-> who, src |-> source,
       offset |-> bad_bit.offset, length |-> bad_bit.length,
       at |-> Len(consumed')]

\* A slip that would note the error and go on parsing.
FailAndGoOn(msg, who, sp) ==
  /\ error' = ParseError(msg, who, sp)
  /\ UNCHANGED <<stack, status, result, calls>>

Fail(msg, who, sp) ==
  /\ status' = "err"
  /\ error' = ParseError(msg, who, sp)
  /\ UNCHANGED <<stack, result, calls>>

\* The parser goes on to its next lexer.next() call with the stack stk.
Continue(stk) ==
  /\ stack' = stk
  /\ UNCHANGED <<status, result, error, calls>>

\* parse_list, lines 90-119 and 129: what follows a value, and what
\* follows a Space.
ListPush(f, v) ==
  LET g == [f EXCEPT !.array = ArrayPush(f.array, v), !.awaits_value = FALSE]
  IN  [g EXCEPT !.awaits_space = ~g.awaits_value]

\* A slip that would leave awaits_space as it was (line 129 missing).
ListSpaceStale(f) == [f EXCEPT !.awaits_value = TRUE]

ListSpace(f) ==
  LET g == [f EXCEPT !.awaits_value = TRUE]
  IN  [g EXCEPT !.awaits_space = ~g.awaits_value]

\* parse_attrset, lines 169-170 and 183, and lines 154 and 183.
AttrInsert(f, v) ==
  LET g == [f EXCEPT !.map = MapInsert(f.map, f.key, v),
                     !.awaits_key = FALSE, !.pc = "loop"]
  IN  [g EXCEPT !.awaits_comma = ~g.awaits_key]

AttrComma(f) ==
  LET g == [f EXCEPT !.awaits_key = TRUE]
  IN  [g EXCEPT !.awaits_comma = ~g.awaits_key]

\* A callee hands the value v to the call on top of stk (to main when stk
\* is empty).
Absorb(f, v) == IF f.fn = "list" THEN ListPush(f, v) ELSE AttrInsert(f, v)

Deliver(stk, v, returned) ==
  /\ calls' = returned
  /\ IF stk = <<>>
     THEN /\ stack' = <<>>
          /\ status' = "ok"
          /\ result' = v
          /\ UNCHANGED error
     ELSE /\ stack' = [stk EXCEPT ![Len(stk)] = Absorb(@, v)]
          /\ UNCHANGED <<status, result, error>>

\* The call on top of the stack returns Ok(v) at token `to`.  parse_list
\* calls parse_list and parse_attrset itself; main and parse_attrset call
\* them through parse_value, which returns the same value.
ReturnOk(v, to) ==
  LET f == Top
      rest == Caller
      viaValue == IF rest = <<>> THEN TRUE ELSE rest[Len(rest)].fn = "attrset"
  IN  Deliver(rest, v,
              calls \o <<Call(f.fn, f.from, to, v)>>
                    \o (IF viaValue THEN <<Call("value", f.from, to, v)>>
                        ELSE <<>>))

\* A slip that would turn a hex literal into a number.
ValueArmCoerced(tok) ==
  CASE IsLeaf(tok) -> [arm |-> "leaf", v |-> LeafValue(tok)]
    [] tok.kind = "HexInteger" ->
         [arm |-> "leaf", v |-> VInteger(<<"2", "6">>)]
    [] tok.kind = "BraceOpen" -> [arm |-> "attrset", v |-> VNull]
    [] tok.kind = "BracketOpen" -> [arm |-> "list", v |-> VNull]
    [] OTHER -> [arm |-> "unexpected", v |-> VNull]

\* The match of parse_value, lines 51-66: the arm taken, and the value of
\* an arm that returns one.
ValueArm(tok) ==
  CASE IsLeaf(tok) -> [arm |-> "leaf", v |-> LeafValue(tok)]
    [] tok.kind = "BraceOpen" -> [arm |-> "attrset", v |-> VNull]
    [] tok.kind = "BracketOpen" -> [arm |-> "list", v |-> VNull]
    [] OTHER -> [arm |-> "unexpected", v |-> VNull]

\* A slip that would accept ']' after a Space.
ListCloseUnguarded(f) == TRUE

\* A slip that would accept a value right after a value.
ListValueUnguarded(f) == TRUE

\* The guards of the match of parse_list, lines 89-128.
ListValueGuard(f) == ~f.awaits_space
ListCloseGuard(f) == ~f.awaits_value
ListSpaceGuard(f) == f.awaits_space

ListArm(f, tok) ==
  CASE IsLeaf(tok) /\ ListValueGuard(f) -> "push"
    [] tok.kind = "BraceOpen" /\ ListValueGuard(f) -> "attrset"
    [] tok.kind = "BracketOpen" /\ ListValueGuard(f) -> "list"
    [] tok.kind = "BracketClose" /\ ListCloseGuard(f) -> "close"
    [] tok.kind = "Space" /\ ListSpaceGuard(f) -> "space"
    [] OTHER -> "unexpected"

\* A slip that would accept a trailing comma.
AttrCloseUnguarded(f) == TRUE

\* The guards of the match of parse_attrset, lines 150-182.
AttrCloseGuard(f) == ~f.awaits_key
AttrCommaGuard(f) == f.awaits_comma
AttrKeyGuard(f) == ~f.awaits_comma

AttrArm(f, tok) ==
  CASE tok.kind = "BraceClose" /\ AttrCloseGuard(f) -> "close"
    [] tok.kind = "Comma" /\ AttrCommaGuard(f) -> "comma"
    [] tok.kind = "Identifier" /\ AttrKeyGuard(f) -> "key"
    [] OTHER -> "unexpected"

\* Slips that would report the end of the stream as an unexpected token.
ListEndErrorSlip == MsgUnexpectedList
AttrEndErrorSlip == MsgExpectedEquals

\* The errors of a stream that ends.
ValueEndError == MsgEmptyValue
ListEndError == MsgUnterminatedList
AttrEndError == MsgUnterminatedAttrSet
KeyEndError == MsgExpectedEquals

\* A slip that would take ':' for '=' after a key.
EqualsOrColon(tok) == tok.kind \in {"Equals", "Colon"}

\* Some(Ok(Token::Equals)) of line 157.
EqualsArm(tok) == tok.kind = "Equals"

\* parse_value: called by main (the stack is empty) and by parse_attrset
\* after a key and '='.
AtValue == IF stack = <<>> THEN TRUE ELSE Top.pc = "value"

ParseValue ==
  /\ status = "run"
  /\ AtValue
  /\ \E m \in Matches :
       LET raw == m.raw
       IN  IF raw = EndOfInput
          THEN ReadNone(m) /\ Fail(ValueEndError, "value", span)
          ELSE IF Callback(raw).panic
          THEN Abort(m)
          ELSE LET tok == Callback(raw).tok
                   i == Len(consumed) + 1
                   arm == ValueArm(tok).arm
                   v == ValueArm(tok).v
               IN  /\ ReadToken(m, "value")
                   /\ CASE arm = "leaf" ->
                             Deliver(stack, v,
                                     Append(calls, Call("value", i, i, v)))
                        [] arm = "attrset" ->
                             Continue(Append(stack, AttrFrame(i, Cursor(m))))
                        [] arm = "list" ->
                             Continue(Append(stack, ListFrame(i, Cursor(m))))
                        [] OTHER -> Fail(MsgUnexpectedValue, "value", span)

\* One iteration of the loop of parse_list.
ParseList ==
  /\ status = "run"
  /\ stack # <<>>
  /\ Top.fn = "list"
  /\ \E m \in Matches :
       LET raw == m.raw
       IN  IF raw = EndOfInput
          THEN ReadNone(m) /\ Fail(ListEndError, "list", Top.span)
          ELSE IF Callback(raw).panic
          THEN Abort(m)
          ELSE LET tok == Callback(raw).tok
                   i == Len(consumed) + 1
                   arm == ListArm(Top, tok)
               IN  /\ ReadToken(m, "list")
                   /\ CASE arm = "push" ->
                             Continue([stack EXCEPT ![Len(stack)] =
                                         ListPush(@, LeafValue(tok))])
                        [] arm = "attrset" ->
                             Continue(Append(stack, AttrFrame(i, Cursor(m))))
                        [] arm = "list" ->
                             Continue(Append(stack, ListFrame(i, Cursor(m))))
                        [] arm = "close" -> ReturnOk(VList(Top.array), i)
                        [] arm = "space" ->
                             Continue([stack EXCEPT ![Len(stack)] =
                                         ListSpace(@)])
                        [] OTHER -> Fail(MsgUnexpectedList, "list", Top.span)

\* One iteration of the loop of parse_attrset, up to the lexer.next() call
\* of line 156 when the token is a key.
ParseAttrset ==
  /\ status = "run"
  /\ stack # <<>>
  /\ Top.fn = "attrset"
  /\ Top.pc = "loop"
  /\ \E m \in Matches :
       LET raw == m.raw
       IN  IF raw = EndOfInput
          THEN ReadNone(m) /\ Fail(AttrEndError, "attrset", Top.span)
          ELSE IF Callback(raw).panic
          THEN Abort(m)
          ELSE LET tok == Callback(raw).tok
                   i == Len(consumed) + 1
                   arm == AttrArm(Top, tok)
               IN  /\ ReadToken(m, "attrset")
                   /\ CASE arm = "close" -> ReturnOk(VAttrSet(Top.map), i)
                        [] arm = "comma" ->
                             Continue([stack EXCEPT ![Len(stack)] =
                                         AttrComma(@)])
                        [] arm = "key" ->
                             Continue([stack EXCEPT ![Len(stack)] =
                                         [@ EXCEPT !.key = tok.s,
                                                   !.pc = "eq"]])
                        [] OTHER -> Fail(MsgExpectedEquals, "attrset", Top.span)

\* parse_attrset after a key, lines 156-168: the next token must be '=',
\* and parse_value is called.
ExpectEquals ==
  /\ status = "run"
  /\ stack # <<>>
  /\ Top.fn = "attrset"
  /\ Top.pc = "eq"
  /\ \E m \in Matches :
       LET raw == m.raw
       IN  IF raw = EndOfInput
          THEN ReadNone(m) /\ Fail(KeyEndError, "attrset", Top.span)
          ELSE IF Callback(raw).panic
          THEN Abort(m)
          ELSE /\ ReadToken(m, "attrset")
               /\ IF EqualsArm(Callback(raw).tok)
                  THEN Continue([stack EXCEPT ![Len(stack)] =
                                   [@ EXCEPT !.pc = "value"]])
                  ELSE Fail(MsgExpectedEquals, "attrset", Top.span)

Next == ParseValue \/ ParseList \/ ParseAttrset \/ ExpectEquals

Spec == Init /\ [][Next]_vars

\* main calls parse_value and runs it to its end.
FairSpec == Spec /\ WF_vars(Next)

(***************************************************************************)
(* Runs on a given text: main reads the whole file and hands the text to   *)
(* Token::lexer.  The texts are renderings of trees, with and without text *)
(* after them, renderings cut short, other literals, and two-element lists *)
(* with every short separator.                                             *)
(***************************************************************************)

\* The text of a tree: the elements of a list one space apart, the
\* bindings of an attrset as key=value with ',' between them.  An Integer
\* is its decimal digits, after a '-' when it is negative.
RECURSIVE Render(_), RenderElems(_), RenderBindings(_, _)
Render(v) ==
  CASE v.kind = "Null" -> <<"n", "u", "l", "l">>
    [] v.kind = "Bool" ->
         IF v.b THEN <<"t", "r", "u", "e">> ELSE <<"f", "a", "l", "s", "e">>
    [] v.kind = "Integer" -> v.n
    [] v.kind = "List" -> <<"[">> \o RenderElems(v.elems) \o <<"]">>
    [] v.kind = "AttrSet" ->
         <<"{">> \o RenderBindings(v.attrs, DOMAIN v.attrs) \o <<"}">>

RenderElems(es) ==
  IF es = <<>> THEN <<>>
  ELSE IF Len(es) = 1 THEN Render(es[1])
  ELSE Render(es[1]) \o <<" ">> \o RenderElems(Tail(es))

RenderBindings(map, keys) ==
  IF keys = {} THEN <<>>
  ELSE LET k == CHOOSE x \in keys : TRUE
           rest == keys \ {k}
       IN  k \o <<"=">> \o Render(map[k])
             \o (IF rest = {} THEN <<>>
                 ELSE <<",">> \o RenderBindings(map, rest))

\* Deepest nesting of the trees that are rendered, and longest separator
\* put between the two elements of a list.
TreeDepth == 1
MaxSeparator == 4

TreeLeaves ==
  {VNull, VBool(TRUE), VBool(FALSE), VInteger(I64MaxDigits),
   VInteger(<<"-", "1">>)}

TreeKeys == {<<"a">>, <<"b">>}

ListWidths == {0, 1, 2}

RECURSIVE TreesOfDepth(_)
TreesOfDepth(d) ==
  IF d = 0 THEN TreeLeaves
  ELSE LET sub == TreesOfDepth(d - 1)
       IN  TreeLeaves
             \cup {VList(es) : es \in UNION {[1..n -> sub] : n \in ListWidths}}
             \cup {VAttrSet(map) :
                     map \in UNION {[ks -> sub] : ks \in SUBSET TreeKeys}}

\* Trees nested deeper: [[0] {a=[null true]}], {a={b=i64::MAX},b=[]} and
\* [[-1] {}].
DeepTrees ==
  { VList(<<VList(<<VInteger(<<"0">>)>>),
            VAttrSet([k \in {<<"a">>} |-> VList(<<VNull, VBool(TRUE)>>)])>>),
    VAttrSet([k \in TreeKeys |->
                IF k = <<"a">>
                THEN VAttrSet([j \in {<<"b">>} |-> VInteger(I64MaxDigits)])
                ELSE VList(<<>>)]),
    VList(<<VList(<<VInteger(<<"-", "1">>)>>), VAttrSet(<<>>)>>) }

Trees == TreesOfDepth(TreeDepth) \cup DeepTrees

\* Text after a value: a token right after it, or a space and text that no
\* rule matches.  It is put after the trees of one level and the deeper
\* ones.
Suffixes == {<<"]">>, <<" ", "@">>}

SuffixedTrees == TreesOfDepth(1) \cup DeepTrees

\* Renderings cut short.
BrokenTexts ==
  UNION {{SubSeq(Render(t), 1, n) : n \in 0..(Len(Render(t)) - 1)} :
           t \in DeepTrees}

\* Texts of the other literals and of the reserved words.
LiteralTexts ==
  { <<"1", ".", "5">>, <<"-", "1", ".", "5", "e", "2">>,
    <<"1", ".", "5", "f">>, <<"1", "_", "0">>, <<"0", "x", "1", "A">>,
    <<"0", "x", "1", "p", "3">>, <<"0", "o", "7">>, <<"0", "b", "1">>,
    <<"n", "u", "l", "l", "a">>, <<"{", "i", "n", "=", "1", "}">>,
    <<"{", "a", ":", "1", "}">>, <<"l", "e", "t">>, <<";">> }

\* The list of 1 and 1 with the text sep between them.
ListOfTwo(sep) == <<"[", "1">> \o sep \o <<"1", "]">>

SeparatorChars == WhiteChars \cup {"/"}

Separators ==
  UNION {[1..n -> SeparatorChars] : n \in 1..MaxSeparator}

InitText ==
  /\ consumed = <<>>
  /\ consumer = <<>>
  /\ eof = FALSE
  /\ matched = EndOfInput
  /\ stack = <<>>
  /\ status = "run"
  /\ result = VNull
  /\ error = NoError
  /\ calls = <<>>
  /\ span = Span(0, 0)
  /\ spans = <<>>
  /\ \/ \E t \in Trees : tree = t /\ source = Render(t)
     \/ \E t \in SuffixedTrees, sfx \in Suffixes :
          tree = t /\ source = Render(t) \o sfx
     \/ \E text \in BrokenTexts \cup LiteralTexts
                       \cup {ListOfTwo(sep) : sep \in Separators} :
          tree = NoTree /\ source = text

SpecText == InitText /\ [][Next]_vars

(***************************************************************************)
(* The grammar of the specification, read off a token sequence s from      *)
(* index i on.  Each recognizer gives the index after the phrase, 0 when a *)
(* token cannot be part of the phrase, and -1 when s ends inside it.       *)
(* Below, [ ] is an option and { } a repetition.                           *)
(*   value   := 'null' | bool | integer | float | list | attrset           *)
(*   list    := '[' [ value { SPACE value } ] ']'                          *)
(*   attrset := '{' [ ident '=' value { ',' ident '=' value } ] '}'        *)
(***************************************************************************)

RECURSIVE GValue(_, _), GList(_, _), GListRest(_, _)
RECURSIVE GAttrs(_, _), GBinding(_, _), GAttrsRest(_, _)

GValue(s, i) ==
  IF i > Len(s) THEN -1
  ELSE CASE s[i].kind \in {"Null", "Bool", "Integer", "Float"} -> i + 1
         [] s[i].kind = "BracketOpen" -> GList(s, i + 1)
         [] s[i].kind = "BraceOpen" -> GAttrs(s, i + 1)
         [] OTHER -> 0

\* After '[': ']' or value { SPACE value } ']'.
GList(s, i) ==
  IF i > Len(s) THEN -1
  ELSE IF s[i].kind = "BracketClose" THEN i + 1
  ELSE LET j == GValue(s, i) IN IF j <= 0 THEN j ELSE GListRest(s, j)

\* After a value of a list: { SPACE value } ']'.
GListRest(s, i) ==
  IF i > Len(s) THEN -1
  ELSE CASE s[i].kind = "BracketClose" -> i + 1
         [] s[i].kind = "Space" ->
              LET j == GValue(s, i + 1)
              IN  IF j <= 0 THEN j ELSE GListRest(s, j)
         [] OTHER -> 0

\* After '{': '}' or ident '=' value { ',' ident '=' value } '}'.
GAttrs(s, i) ==
  IF i > Len(s) THEN -1
  ELSE IF s[i].kind = "BraceClose" THEN i + 1
  ELSE LET j == GBinding(s, i) IN IF j <= 0 THEN j ELSE GAttrsRest(s, j)

\* ident '=' value.
GBinding(s, i) ==
  IF i > Len(s) THEN -1
  ELSE IF s[i].kind # "Identifier" THEN 0
  ELSE IF i + 1 > Len(s) THEN -1
  ELSE IF s[i + 1].kind # "Equals" THEN 0
  ELSE GValue(s, i + 2)

\* After a binding: { ',' ident '=' value } '}'.
GAttrsRest(s, i) ==
  IF i > Len(s) THEN -1
  ELSE CASE s[i].kind = "BraceClose" -> i + 1
         [] s[i].kind = "Comma" ->
              LET j == GBinding(s, i + 1)
              IN  IF j <= 0 THEN j ELSE GAttrsRest(s, j)
         [] OTHER -> 0

\* The calls in progress and the calls returned, by function.
Open(fn) == {k \in 1..Len(stack) : stack[k].fn = fn}
Returned(fn) == {k \in 1..Len(calls) : calls[k].fn = fn}

\* What the grammar says of a phrase whose production is still open: while
\* the parser runs, and when the stream has ended, the tokens are the start
\* of a phrase; at an error on a token, they are the start of none.
OpenVerdict == IF status = "err" /\ ~eof THEN 0 ELSE -1

\* C1: after a consumed '[', parse_list returns a List exactly when the
\* tokens up to the matching ']' have the form [ value { SPACE value } ] ']':
\* a call that has returned covers exactly such a phrase, a call in
\* progress has read the start of one, and a call that failed has read
\* tokens that start none (or the stream ended inside the phrase).
ListGrammar ==
  /\ \A k \in Returned("list") :
       /\ calls[k].res.kind = "List"
       /\ GList(consumed, calls[k].from + 1) = calls[k].to + 1
  /\ \A k \in Open("list") :
       GList(consumed, stack[k].from + 1) = OpenVerdict

\* A list of two elements, a nested attrset and a nested list separated by
\* one Space, was returned.
ListGrammarWitness ==
  /\ status = "ok"
  /\ result.kind = "List"
  /\ Len(result.elems) = 2
  /\ result.elems[1].kind = "AttrSet"
  /\ result.elems[2].kind = "List"

\* C2: after a consumed '{', parse_attrset returns an AttrSet exactly when
\* the tokens up to the matching '}' have the form
\* [ ident '=' value { ',' ident '=' value } ] '}'.
AttrSetGrammar ==
  /\ \A k \in Returned("attrset") :
       /\ calls[k].res.kind = "AttrSet"
       /\ GAttrs(consumed, calls[k].from + 1) = calls[k].to + 1
  /\ \A k \in Open("attrset") :
       GAttrs(consumed, stack[k].from + 1) = OpenVerdict

\* An attrset of two bindings was returned.
AttrSetGrammarWitness ==
  /\ status = "ok"
  /\ result.kind = "AttrSet"
  /\ Cardinality(DOMAIN result.attrs) = 2

(***************************************************************************)
(* The value the specification gives a phrase of the grammar.              *)
(***************************************************************************)

\* The indices at which the elements of a list start; i is the index after
\* its '[' or after a SPACE.
RECURSIVE Elements(_, _)
Elements(s, i) ==
  IF s[i].kind = "BracketClose" THEN <<>>
  ELSE LET j == GValue(s, i)
       IN  <<i>> \o (IF s[j].kind = "Space" THEN Elements(s, j + 1) ELSE <<>>)

\* The bindings of an attrset, each the index of its key; i is the index
\* after its '{' or after a ','.
RECURSIVE Bindings(_, _)
Bindings(s, i) ==
  IF s[i].kind = "BraceClose" THEN <<>>
  ELSE LET j == GValue(s, i + 2)
       IN  <<i>> \o (IF s[j].kind = "Comma" THEN Bindings(s, j + 1) ELSE <<>>)

\* The last binding of the key k among the bindings bs.
LastBinding(s, bs, k) ==
  LET n == CHOOSE n \in 1..Len(bs) :
             /\ s[bs[n]].s = k
             /\ \A m \in (n + 1)..Len(bs) : s[bs[m]].s # k
  IN  bs[n]

RECURSIVE Meaning(_, _)
Meaning(s, i) ==
  CASE s[i].kind = "Null" -> VNull
    [] s[i].kind = "Bool" -> VBool(s[i].b)
    [] s[i].kind = "Integer" -> VInteger(s[i].n)
    [] s[i].kind = "Float" -> VFloat(s[i].f)
    [] s[i].kind = "BracketOpen" ->
         LET es == Elements(s, i + 1)
         IN  VList([n \in 1..Len(es) |-> Meaning(s, es[n])])
    [] s[i].kind = "BraceOpen" ->
         LET bs == Bindings(s, i + 1)
         IN  VAttrSet([k \in {s[bs[n]].s : n \in 1..Len(bs)} |->
                         Meaning(s, LastBinding(s, bs, k) + 2)])

\* C3: parse_value dispatches on the single next token: null, a boolean,
\* an integer and a float give Null, Bool, Integer and Float; '{' and '['
\* delegate to parse_attrset and parse_list; the end of the stream fails
\* with EmptyValue and every other token with UnexpectedToken(value).
ValueDispatch ==
  /\ \A i \in 1..Len(consumed) :
       consumer[i] = "value" =>
         LET t == consumed[i]
             rets == {k \in Returned("value") : calls[k].from = i}
         IN  CASE t.kind = "Null" ->
                    \E k \in rets : calls[k].to = i /\ calls[k].res = VNull
               [] t.kind = "Bool" ->
                    \E k \in rets :
                      calls[k].to = i /\ calls[k].res = VBool(t.b)
               [] t.kind = "Integer" ->
                    \E k \in rets :
                      calls[k].to = i /\ calls[k].res = VInteger(t.n)
               [] t.kind = "Float" ->
                    \E k \in rets :
                      calls[k].to = i /\ calls[k].res = VFloat(t.f)
               [] t.kind = "BracketOpen" ->
                    \/ \E k \in Open("list") : stack[k].from = i
                    \/ \E k \in rets : \E d \in Returned("list") :
                         calls[d] = [calls[k] EXCEPT !.fn = "list"]
               [] t.kind = "BraceOpen" ->
                    \/ \E k \in Open("attrset") : stack[k].from = i
                    \/ \E k \in rets : \E d \in Returned("attrset") :
                         calls[d] = [calls[k] EXCEPT !.fn = "attrset"]
               [] OTHER ->
                    /\ i = Len(consumed)
                    /\ status = "err"
                    /\ ErrorIs(MsgUnexpectedValue, "value")
  /\ (eof /\ AtValue) =>
       status = "err" /\ ErrorIs(MsgEmptyValue, "value")

\* parse_value was called by parse_attrset, read a boolean and returned it.
ValueDispatchWitness ==
  /\ Len(consumed) >= 4
  /\ consumer[4] = "value"
  /\ consumed[4].kind = "Bool"
  /\ consumed[4].b
  /\ \E k \in Returned("value") :
       calls[k].from = 4 /\ calls[k].res = VBool(TRUE)

\* C4: the mapping of an accepted attrset has one entry per distinct key,
\* holding the value of the last binding of that key.
LastWriteWins ==
  \A k \in Returned("attrset") :
    LET bs == Bindings(consumed, calls[k].from + 1)
        m == calls[k].res.attrs
    IN  /\ DOMAIN m = {consumed[bs[n]].s : n \in 1..Len(bs)}
        /\ \A key \in DOMAIN m :
             m[key] = Meaning(consumed, LastBinding(consumed, bs, key) + 2)

\* "{a=1,a=null}" was accepted.
LastWriteWinsWitness ==
  /\ status = "ok"
  /\ result.kind = "AttrSet"
  /\ Len(consumed) = 9
  /\ consumed[2].s = consumed[6].s
  /\ consumed[4] # consumed[8]

\* C5: an accepted list has as many elements as there are element values
\* between its brackets, in encounter order.
ListOrder ==
  \A k \in Returned("list") :
    LET es == Elements(consumed, calls[k].from + 1)
        a == calls[k].res.elems
    IN  /\ Len(a) = Len(es)
        /\ \A n \in 1..Len(es) : a[n] = Meaning(consumed, es[n])

\* A list of three different elements, the second one a list, was accepted.
ListOrderWitness ==
  /\ status = "ok"
  /\ result.kind = "List"
  /\ Len(result.elems) = 3
  /\ result.elems[1].kind = "Integer"
  /\ result.elems[2].kind = "List"
  /\ result.elems[3].kind = "Bool"

\* The stream has ended, and the innermost call in progress was fn.
EndedIn(fn) == IF eof /\ stack # <<>> THEN Top.fn = fn ELSE FALSE

\* C6, as stated: wherever inside an attrset the stream ends (after '{',
\* after a key, after '=', after a value, after ','), the parse fails with
\* UnterminatedAttrSet.
UnterminatedAttrSetEverywhere ==
  EndedIn("attrset") =>
    status = "err" /\ error.message = MsgUnterminatedAttrSet

\* C6, amended: a stream that ends at the head of the loop of parse_attrset
\* (after '{', after the value of a binding, after ',') fails with
\* UnterminatedAttrSet; one that ends after a key fails with "expected '='",
\* and one that ends after '=' with EmptyValue.
UnterminatedAttrSet ==
  EndedIn("attrset") =>
    /\ status = "err"
    /\ CASE Top.pc = "loop" -> ErrorIs(MsgUnterminatedAttrSet, "attrset")
         [] Top.pc = "eq" -> ErrorIs(MsgExpectedEquals, "attrset")
         [] Top.pc = "value" -> ErrorIs(MsgEmptyValue, "value")

\* The stream ended after the ',' of "{a=1,".
UnterminatedAttrSetWitness ==
  /\ EndedIn("attrset")
  /\ Top.pc = "loop"
  /\ Top.awaits_key
  /\ error.message = MsgUnterminatedAttrSet

\* C7, as stated: whenever the stream ends between a consumed '[' and its
\* matching ']', also inside an element nested in that list, the parse
\* fails with UnterminatedList.
UnterminatedListEverywhere ==
  (eof /\ Open("list") # {}) =>
    status = "err" /\ error.message = MsgUnterminatedList

\* C7, amended: whenever the stream ends between a consumed '[' and its
\* matching ']', the parse fails with UnterminatedList when the innermost
\* production in progress is a list (that list or one nested in it), and
\* with the error of the attrset (UnterminatedAttrSet, "expected '='" or
\* EmptyValue) when the stream ends inside a nested attrset.
UnterminatedList ==
  (eof /\ Open("list") # {}) =>
    /\ status = "err"
    /\ IF Top.fn = "list"
       THEN ErrorIs(MsgUnterminatedList, "list")
       ELSE error.message \in
              {MsgUnterminatedAttrSet, MsgExpectedEquals, MsgEmptyValue}

\* The stream ended inside a list nested in a list, after a Space.
UnterminatedListWitness ==
  /\ EndedIn("list")
  /\ Len(stack) = 2
  /\ stack[1].fn = "list"
  /\ Top.awaits_value
  /\ error.message = MsgUnterminatedList

\* The number a decimal literal denotes: its digits, '_' left out.
Denoted(slice) ==
  StripZeros(SelectSeq(slice, LAMBDA c : c # "_"))

\* C8: a decimal literal beyond the 64-bit signed range never aborts the
\* process: lexing and parsing it ends in a returned error, wherever the
\* literal stands.
OverflowIsDiagnosed ==
  (matched.rule = "Integer" /\ DigitsGreater(Denoted(matched.slice), I64MaxDigits))
    => status = "err"

\* C9: every text matching [0-9][_0-9]* whose number fits 64 bits yields an
\* Integer token carrying the number its digits denote.
DecimalConverted ==
  (matched.rule = "Integer" /\ ~DigitsGreater(Denoted(matched.slice), I64MaxDigits))
    => /\ status # "abort"
       /\ consumed # <<>>
       /\ consumed[Len(consumed)] =
            [Tok("Integer") EXCEPT !.n = Denoted(matched.slice)]

RadixRules == {"HexInteger", "OctalInteger", "BinaryInteger", "HexFloat"}

\* The lexer's last match is a radix-prefixed integer or a hex float, and
\* parse_value asked for it.
RadixAtValue ==
  IF matched.rule \in RadixRules /\ consumed # <<>>
  THEN consumer[Len(consumed)] = "value"
  ELSE FALSE

\* C10, as stated: a radix-prefixed integer or hex-float token reaching the
\* value production is rejected with an "unsupported literal" error of its
\* own, distinct from the generic unexpected-token error.
UnsupportedLiteralError ==
  RadixAtValue => status = "err" /\ error.message # MsgUnexpectedValue

\* C10, amended: such a token is rejected with the generic error
\* "unexpected token (context: value)" (there is no "unsupported literal"
\* error), and is never turned into a value.
RadixRejected ==
  RadixAtValue =>
    /\ status = "err"
    /\ ErrorIs(MsgUnexpectedValue, "value")
    /\ \A k \in 1..Len(calls) : calls[k].from # Len(consumed)

\* A hex float stood where the value of a binding was expected.
RadixRejectedWitness ==
  /\ RadixAtValue
  /\ matched.rule = "HexFloat"
  /\ Len(consumed) = 4
  /\ status = "err"

(***************************************************************************)
(* Errors, separators, value kinds and flags                               *)
(***************************************************************************)

\* The parse failed on the token i: it was read and no arm accepted it.
RejectedAt(i) == status = "err" /\ ~eof /\ error.at = i

\* The token i is the last one of a value.
EndsValue(i) ==
  IsLeaf(consumed[i]) \/ consumed[i].kind \in {"BracketClose", "BraceClose"}

\* The token i can be the first one of a value.
StartsValue(i) ==
  IsLeaf(consumed[i]) \/ consumed[i].kind \in {"BracketOpen", "BraceOpen"}

\* C12: there is no error recovery.  A parse that has raised an error has
\* ended with that one error and no value: nothing more is read once it is
\* raised, no call in progress returns a value, and what the calls in
\* progress had collected is not returned.
NoRecovery ==
  /\ error # NoError => status = "err"
  /\ status = "err" =>
       /\ error.message \in {MsgUnexpectedValue, MsgEmptyValue,
                             MsgUnexpectedList, MsgUnterminatedList,
                             MsgExpectedEquals, MsgUnterminatedAttrSet}
       /\ error.at = Len(consumed)
       /\ result = VNull
       /\ \A k \in 1..Len(stack) : \A c \in 1..Len(calls) :
            calls[c].from # stack[k].from
  /\ status = "ok" => error = NoError

\* A list nested in an attrset has collected a value when its next token
\* is rejected.
NoRecoveryWitness ==
  /\ status = "err"
  /\ ~eof
  /\ Len(stack) = 2
  /\ stack[1].fn = "attrset"
  /\ Top.fn = "list"
  /\ Top.array # <<>>

\* The token i is read by parse_list right after the last token of an
\* element, or right after a Space.
ListAfterValue(i) == i > 1 /\ consumer[i] = "list" /\ EndsValue(i - 1)

ListAfterSpace(i) ==
  i > 1 /\ consumer[i] = "list" /\ consumed[i - 1].kind = "Space"

\* C15, as stated: after an element of a list, a value or a ']' read
\* without a Space before it is an error.
SpaceBeforeValueOrClose ==
  \A i \in 1..Len(consumed) :
    ListAfterValue(i) /\ consumed[i].kind # "Space" => RejectedAt(i)

\* C15, amended: after an element of a list a Space or the closing ']' is
\* accepted and every other token, a value among them, is an error of the
\* list; after a Space a value is accepted, and a second Space or the ']'
\* is an error of the list.
SpaceBetweenValues ==
  \A i \in 1..Len(consumed) :
    /\ ListAfterValue(i) =>
         IF consumed[i].kind \in {"Space", "BracketClose"}
         THEN ~RejectedAt(i)
         ELSE RejectedAt(i) /\ ErrorIs(MsgUnexpectedList, "list")
    /\ ListAfterSpace(i) =>
         IF StartsValue(i)
         THEN ~RejectedAt(i)
         ELSE RejectedAt(i) /\ ErrorIs(MsgUnexpectedList, "list")

\* A list took a value, a Space and a value, and the value that follows
\* with no Space is rejected.
SpaceBetweenValuesWitness ==
  /\ Len(consumed) >= 5
  /\ RejectedAt(Len(consumed))
  /\ ListAfterValue(Len(consumed))
  /\ StartsValue(Len(consumed))
  /\ Len(Top.array) = 2

\* A Value with no String and no LetIn in it.
RECURSIVE WellKinded(_)
WellKinded(v) ==
  \/ v.kind \in {"Null", "Bool", "Integer", "Float"}
  \/ v.kind = "List" /\ \A i \in 1..Len(v.elems) : WellKinded(v.elems[i])
  \/ v.kind = "AttrSet" /\ \A k \in DOMAIN v.attrs : WellKinded(v.attrs[k])

\* C16: no value that is returned, at any depth, holds a String or a
\* LetIn, and each of the tokens let, in, ';' and ':' is an error wherever
\* it is read.
NoStringNoLetIn ==
  /\ status = "ok" => WellKinded(result)
  /\ \A c \in 1..Len(calls) : WellKinded(calls[c].res)
  /\ \A i \in 1..Len(consumed) :
       consumed[i].kind \in {"Let", "In", "SemiColon", "Colon"} =>
         RejectedAt(i)

\* A ':' after the key of a binding.
NoStringNoLetInWitness ==
  /\ stack # <<>>
  /\ RejectedAt(Len(consumed))
  /\ consumed[Len(consumed)].kind = "Colon"
  /\ Top.fn = "attrset"
  /\ Top.pc = "eq"

\* The call on top of the stack is at the head of its loop.
AtLoopHead == status = "run" /\ stack # <<>> /\ Top.pc = "loop"

\* The two flags of a call: <<awaits_space, awaits_value>> of a list and
\* <<awaits_comma, awaits_key>> of an attrset.
Flags(f) ==
  IF f.fn = "list" THEN <<f.awaits_space, f.awaits_value>>
  ELSE <<f.awaits_comma, f.awaits_key>>

\* C20: at the head of a loop the two flags are never both true, and they
\* are the negation of each other once the call has read a token: both are
\* false before its first token only, the first is true after an element
\* or binding, and the second after a separator.  The closing token is
\* accepted in the first two states and rejected in the third.
FlagStates ==
  /\ AtLoopHead =>
       LET last == Len(consumed)
       IN  Flags(Top) =
             IF last = Top.from THEN <<FALSE, FALSE>>
             ELSE IF EndsValue(last) THEN <<TRUE, FALSE>>
             ELSE <<FALSE, TRUE>>
  /\ AtLoopHead /\ Flags(Top) = <<FALSE, TRUE>> =>
       consumed[Len(consumed)].kind =
         IF Top.fn = "list" THEN "Space" ELSE "Comma"
  /\ \A c \in 1..Len(calls) :
       calls[c].fn \in {"list", "attrset"} =>
         consumed[calls[c].to - 1].kind \notin {"Space", "Comma"}
  /\ \A i \in 2..Len(consumed) :
       /\ consumed[i].kind = "BracketClose" /\ consumer[i] = "list"
            => (RejectedAt(i) <=> consumed[i - 1].kind = "Space")
       /\ consumed[i].kind = "BraceClose" /\ consumer[i] = "attrset"
            => (RejectedAt(i) <=>
                  consumed[i - 1].kind \in {"Comma", "Identifier"})

\* A list nested in a list is at the head of its loop after a value and a
\* Space.
FlagStatesWitness ==
  /\ AtLoopHead
  /\ Len(stack) = 2
  /\ Top.fn = "list"
  /\ Flags(Top) = <<FALSE, TRUE>>
  /\ Top.array # <<>>

(***************************************************************************)
(* Texts: round trip, error reports, whitespace, progress and the cursor   *)
(***************************************************************************)

\* A tree with no negative Integer in it.
RECURSIVE NonNegative(_)
NonNegative(v) ==
  CASE v.kind = "Integer" -> v.n[1] # "-"
    [] v.kind = "List" -> \A i \in 1..Len(v.elems) : NonNegative(v.elems[i])
    [] v.kind = "AttrSet" -> \A k \in DOMAIN v.attrs : NonNegative(v.attrs[k])
    [] OTHER -> TRUE

\* The text is the rendering of a tree and nothing more.
Rendered == tree # NoTree /\ source = Render(tree)

\* Parsing the text gives the tree back: no error, the tree as the result,
\* and the result by the end of the text.
GivesTreeBack ==
  /\ status \notin {"err", "abort"}
  /\ status = "ok" => result = tree
  /\ span.end = Len(source) => status = "ok"

\* C11, as stated: the rendering of every tree of Null, Bool, Integer (the
\* negative ones among them), List and AttrSet nodes parses to an equal
\* tree.
RoundTrip == Rendered => GivesTreeBack

\* C11, amended: the rendering of every such tree with no negative Integer
\* in it parses to an equal tree.
RoundTripNonNegative == Rendered /\ NonNegative(tree) => GivesTreeBack

\* {a={b=9223372036854775807},b=[]} is parsed back.
RoundTripWitness ==
  /\ Rendered
  /\ status = "ok"
  /\ result = tree
  /\ tree.kind = "AttrSet"
  /\ <<"a">> \in DOMAIN tree.attrs
  /\ tree.attrs[<<"a">>].kind = "AttrSet"

\* C13, as stated: every error carries the whole source text and a message
\* that names the context it was raised in.
EveryMessageNamesContext ==
  status = "err" =>
    error.src = source /\ ContextLabel(error.message) = error.by

\* C13, amended: every error carries the whole source text, and its
\* message names the context it was raised in, but for the error of
\* parse_value on a text that ends, whose message names none.
ErrorCarriesSourceAndContext ==
  status = "err" =>
    /\ error.src = source
    /\ IF error.message = MsgEmptyValue
       THEN error.by = "value" /\ ContextLabel(error.message) = ""
       ELSE ContextLabel(error.message) = error.by

\* A list nested in a list is cut short.
ErrorCarriesSourceAndContextWitness ==
  /\ status = "err"
  /\ source # Streamed
  /\ Len(source) > 2
  /\ ErrorIs(MsgUnterminatedList, "list")
  /\ Len(stack) = 2

\* The separators the lexer is to skip whole: a run of two or more
\* whitespace characters, and a comment up to the end of its line.
IsRun(sep) == Len(sep) >= 2 /\ \A i \in 1..Len(sep) : sep[i] \in WhiteChars

IsComment(sep) ==
  /\ Len(sep) >= 3
  /\ sep[1] = "/"
  /\ sep[2] = "/"
  /\ sep[Len(sep)] = "\n"
  /\ \A i \in 3..(Len(sep) - 1) : sep[i] # "\n"

\* The text between the two values of a text that is a list of 1 and 1.
SeparatorOf(src) == SubSeq(src, 3, Len(src) - 2)

IsListOfTwo(src) == Len(src) >= 4 /\ src = ListOfTwo(SeparatorOf(src))

\* Two values of a list with nothing but a run or a comment between them:
\* the second one is an unexpected token of the list, and no Space is
\* read.
NotSeparated ==
  IsListOfTwo(source)
    /\ (IsRun(SeparatorOf(source)) \/ IsComment(SeparatorOf(source))) =>
    /\ status # "ok"
    /\ \A i \in 1..Len(consumed) : consumed[i].kind # "Space"
    /\ status = "err" =>
         /\ ErrorIs(MsgUnexpectedList, "list")
         /\ RejectedAt(3)
         /\ consumed[3].kind = "Integer"

\* Two values of a list with one space between them: the space is read as
\* a Space and the list is the two values.
LoneSpaceTaken ==
  source = ListOfTwo(<<" ">>) =>
    /\ status \notin {"err", "abort"}
    /\ Len(consumed) >= 3 => consumed[3].kind = "Space"
    /\ status = "ok" =>
         result = VList(<<VInteger(<<"1">>), VInteger(<<"1">>)>>)

\* The newline at offset o ends a // comment.
EndsComment(src, o) ==
  /\ Ch(src, o) = "\n"
  /\ \E j \in 0..(o - 2) :
       /\ Ch(src, j) = "/"
       /\ Ch(src, j + 1) = "/"
       /\ \A k \in j..(o - 1) : Ch(src, k) # "\n"

\* C14, as stated: a Space token is a single space with no whitespace on
\* either side of it, and two list values with a run of whitespace or a
\* comment between them are not separated.
LoneSpaceOnly ==
  /\ \A i \in 1..Len(consumed) :
       consumed[i].kind = "Space" =>
         /\ spans[i].end = spans[i].start + 1
         /\ Ch(source, spans[i].start) = " "
         /\ Ch(source, spans[i].start + 1) \notin WhiteChars
         /\ Ch(source, spans[i].start - 1) \notin WhiteChars
  /\ LoneSpaceTaken
  /\ NotSeparated

\* C14, amended: a Space token is a single space with no whitespace after
\* it and none before it but the newline that ends a comment; two list
\* values with only a run of whitespace or only a comment between them are
\* not separated.
LoneSpaceSeparates ==
  /\ \A i \in 1..Len(consumed) :
       consumed[i].kind = "Space" =>
         /\ spans[i].end = spans[i].start + 1
         /\ Ch(source, spans[i].start) = " "
         /\ Ch(source, spans[i].start + 1) \notin WhiteChars
         /\ \/ Ch(source, spans[i].start - 1) \notin WhiteChars
            \/ EndsComment(source, spans[i].start - 1)
  /\ LoneSpaceTaken
  /\ NotSeparated

\* [1 \n1]: a space next to a newline.
LoneSpaceSeparatesWitness ==
  /\ source = ListOfTwo(<<" ", "\n">>)
  /\ status = "err"
  /\ ErrorIs(MsgUnexpectedList, "list")

\* The opening brackets and braces among the tokens read.
Opens ==
  Cardinality({i \in 1..Len(consumed) :
                 consumed[i].kind \in {"BracketOpen", "BraceOpen"}})

\* One step: the tokens read stay read, in their order, and at most one
\* more is read after them; nothing is read after the end of the stream;
\* a parse that goes on has read a token.
Forward ==
  /\ \/ consumed' = consumed
     \/ /\ Len(consumed') = Len(consumed) + 1
        /\ SubSeq(consumed', 1, Len(consumed)) = consumed
        /\ SubSeq(consumer', 1, Len(consumer)) = consumer
  /\ eof => eof' /\ consumed' = consumed
  /\ span'.start >= span.end
  /\ status' = "run" => Len(consumed') = Len(consumed) + 1

\* The parse_value calls in progress: the one of main, and one in every
\* parse_attrset call that is at the value of a binding.
ValueCalls ==
  1 + Cardinality({k \in 1..Len(stack) : stack[k].pc = "value"})

\* C17: parse_value ends, with a value or an error, on every stream; the
\* cursor moves forward only, no token is read twice or put back, every
\* iteration of a loop reads one, and the recursion is no deeper than the
\* opening brackets and braces read: that many calls of parse_list and
\* parse_attrset are in progress at most, and that many calls of
\* parse_value within the one of main.
Progress ==
  /\ [](Len(stack) <= Opens /\ ValueCalls - 1 <= Opens)
  /\ [][Forward]_vars
  /\ <>(status # "run")

\* A stream of nine tokens with two levels of brackets is parsed to its
\* end.
ProgressWitness ==
  /\ status = "ok"
  /\ Opens = 3
  /\ Len(consumed) = 9

\* The span the lexer had when the function that raised the error was
\* entered: the opening token of a list or an attrset, and for parse_value
\* the last token read before its own.
EntrySpan ==
  IF error.by = "value"
  THEN LET before == IF eof THEN error.at ELSE error.at - 1
       IN  IF before = 0 THEN Span(0, 0) ELSE spans[before]
  ELSE spans[Top.from]

\* C18: the bad_bit of every error covers the bytes of the span the lexer
\* had when the function that raised it was entered, and no others.
BadBitIsEntrySpan ==
  status = "err" =>
    /\ error.offset = EntrySpan.start
    /\ error.offset + error.length = EntrySpan.end

\* C19: a parse that returns a value leaves the cursor at the end of the
\* last token of that value and has read nothing after it; the value is
\* the one of the text before, whatever follows it.
CursorAfterValue ==
  tree # NoTree /\ NonNegative(tree) =>
    /\ status \notin {"err", "abort"}
    /\ ~eof
    /\ span.end <= Len(Render(tree))
    /\ status = "ok" =>
         /\ result = tree
         /\ span.end = Len(Render(tree))
         /\ spans[Len(spans)] = span

\* A list is returned from a text that goes on after it.
CursorAfterValueWitness ==
  /\ tree # NoTree
  /\ status = "ok"
  /\ result.kind = "List"
  /\ Len(result.elems) = 2
  /\ Len(source) > span.end

====
